---- MODULE Spec2Model ----
(***************************************************************************)
(* GBD: a block device whose blocks are objects of a remote store          *)
(* (src/gbd.py).  A pool of GBDWorker threads takes work items             *)
(* (idx, data, cb) from one queue, runs do_request on each (read_block or  *)
(* write_block, retried on a rate-limit rejection), hands the outcome to   *)
(* the item's callback and calls task_done.  GBD.block_id and              *)
(* GBD.new_block keep the table `mapping` under one lock.                  *)
(***************************************************************************)
EXTENDS Integers, Sequences, FiniteSets, TLC

(* ------------------------------ bounds -------------------------------- *)
\* worker threads of the pool (config 'workers')
NumWorkers == 2
\* bd_attr['block_count']
BlockCount == 1
\* bd_attr['block_size']
BlockSize == 1
\* calls of read_block / write_block / sync made on the device
MaxCalls == 2
\* payload bytes are 1..MaxByte (0 is the byte of an unwritten block)
MaxByte == 2
\* objects of one name found in the data folder when the device is opened
MaxInitObjects == 2

(* ------------------------- program constants -------------------------- *)
\* for rnd in xrange(5)
MaxAttempts == 5
\* the None of a mapping slot; object ids are 1, 2, ...
NoId == 0
\* priorities of the work queue
PRI_LOW == 0
PRI_NORMAL == 1
PRI_HIGH == 2

\* Metadata['version'] of module config, and the version of a config file
\* written by another release; NoConfig: the data folder has no config file
ExpectedVersion == 1
OtherVersion == 2
NoConfig == 0
\* the client handle GBD.drive; the handle of worker w is Drive(w)
GBD_drive == 0

Workers == 1..NumWorkers
Blocks == 0..(BlockCount - 1)
Calls == 1..MaxCalls
Pris == {PRI_LOW, PRI_NORMAL, PRI_HIGH}

\* a block filled with byte b
Fill(b) == [j \in 1..BlockSize |-> b]
\* "\0" * block_size
ZeroBlock == Fill(0)
\* the data a caller may pass to write_block: full blocks, an empty string, a
\* string one byte too long
Payloads == {Fill(b) : b \in 1..MaxByte}
BadPayloads == {<< >>, Fill(1) \o <<1>>}
\* the index a caller may pass: one below and one above the valid range too
IdxInputs == (0 - 1)..BlockCount
\* a work item's data is None for a read
NoData == << >>

\* values handed to a callback: cb(err, ret)
NoErr == "None"
NoneRet == [kind |-> "None", val |-> << >>]
Bytes(s) == [kind |-> "bytes", val |-> s]
File(id) == [kind |-> "file", val |-> <<id>>]

\* how a call of the remote store ends: it returns, or raises HttpError 403
\* with reason rateLimitExceeded, or raises another HttpError
RemoteOutcomes == {"ok", "rate", "other"}

\* the kinds of completion sink: the blocking bridge of sync_io (cb is None),
\* a caller's callback
Sinks == {"sync", "cb"}

VARIABLES
    objects,     \* the remote store's data folder: objects[id] = [blk, content, by]
    mapping,     \* GBD.mapping: block index -> object id, or NoId
    lock,        \* GBD.lock: 0 when free, else the worker that holds it
    que,         \* GBD.que: the queued items, in the order get() takes them
    unfinished,  \* GBD.que's count of items put and not yet task_done
    wk,          \* each worker: where it is in run / do_request, and its locals
    calls,       \* each call of read_block / write_block / sync and its caller
    hist,        \* history of each work item (what was done for it)
    config,      \* the version in the data folder's config file, or NoConfig
    gbd          \* the device: "init" in __init__, then "running" or "raised"

vars == <<objects, mapping, lock, que, unfinished, wk, calls, hist, config, gbd>>

(* ------------------------------ initial ------------------------------- *)
\* a worker's locals (pc, item, rnd, blkid, err, ret) and the history of the
\* item it works on: attempts made, attempts rejected for the rate limit, the
\* attempt that succeeded and its result
IdleWorker ==
    [pc |-> "get", item |-> 0, rnd |-> 0, blkid |-> NoId, err |-> NoErr, ret |-> NoneRet,
     attempts |-> 0, rl |-> 0, okAt |-> 0, opres |-> NoneRet,
     resolves |-> 0, rlAt |-> "none"]

\* a worker thread that was not started
Unstarted == [IdleWorker EXCEPT !.pc = "unstarted"]

NewCall ==
    [st |-> "new", idx |-> 0, data |-> NoData, sink |-> "sync",
     sem |-> 0, retbox |-> << >>, out |-> <<NoErr, NoneRet>>]

\* history of a work item: the workers that took it, the pairs its callback
\* was called with, whether its callback raised, its task_done calls, whether
\* the store rejected one of the remote calls made for it; expect and alone:
\* see Expected
NewHist ==
    [takers |-> {}, delivered |-> << >>, cbraised |-> FALSE, tdone |-> 0,
     rejected |-> FALSE, expect |-> NoData, alone |-> FALSE]

\* contents an object of the data folder may have when the device is opened:
\* a full block, or a string of the wrong length
InitContents == {Fill(1), Fill(1) \o <<1>>}

\* the objects named for block i at open time: none, one, or several of the
\* same name (the store does not keep names unique)
InitObjectsOf(i) ==
    {<< >>} \cup {<<[blk |-> i, content |-> x, by |-> 0]>> : x \in InitContents}
            \cup {[j \in 1..n |-> [blk |-> i, content |-> Fill(1), by |-> 0]] :
                        n \in 2..MaxInitObjects}

RECURSIVE StoresUpTo(_)
StoresUpTo(i) ==
    IF i < 0 THEN {<< >>}
    ELSE {s \o t : s \in StoresUpTo(i - 1), t \in InitObjectsOf(i)}

\* the data folder at open time, listed by block
InitStores == StoresUpTo(BlockCount - 1)

Init ==
    /\ objects \in InitStores
    /\ mapping = [i \in Blocks |-> NoId]
    /\ lock = 0
    /\ que = << >>
    /\ unfinished = 0
    /\ wk = [w \in Workers |-> Unstarted]
    /\ calls = [c \in Calls |-> NewCall]
    /\ hist = [c \in Calls |-> NewHist]
    /\ config \in {NoConfig, ExpectedVersion, OtherVersion}
    /\ gbd = "init"

\* mutant of GBD_init: the workers are started before load_data_dir
GBD_init_workers_first ==
    /\ gbd = "init"
    /\ wk' = [w \in Workers |-> IdleWorker]
    /\ \E o \in {"ok", "other"} :
          IF o = "other"
          THEN gbd' = "raised" /\ config' = config
          ELSE IF config = NoConfig
          THEN config' = ExpectedVersion /\ gbd' = "running"
          ELSE IF config # ExpectedVersion
          THEN gbd' = "raised" /\ config' = config
          ELSE gbd' = "running" /\ config' = config
    /\ UNCHANGED <<objects, mapping, lock, que, unfinished, calls, hist>>

\* GBD.__init__: get_data_dir and load_data_dir (a remote call of theirs may
\* raise; without a config file init_data_dir writes one; a config file of
\* another version raises AssertionError), then mapping, que and lock are
\* made and the workers are started
GBD_init ==
    /\ gbd = "init"
    /\ \E o \in {"ok", "other"} :
          IF o = "other"
          THEN gbd' = "raised" /\ config' = config /\ wk' = wk
          ELSE IF config = NoConfig
          THEN /\ config' = ExpectedVersion
               /\ gbd' = "running"
               /\ wk' = [w \in Workers |-> IdleWorker]
          ELSE IF config # ExpectedVersion
          THEN gbd' = "raised" /\ config' = config /\ wk' = wk
          ELSE /\ gbd' = "running"
               /\ config' = config
               /\ wk' = [w \in Workers |-> IdleWorker]
    /\ UNCHANGED <<objects, mapping, lock, que, unfinished, calls, hist>>

(* --------------------------- the work queue --------------------------- *)
\* TimedPriorityQueue (module util): a priority queue with the task counting
\* of Queue.  put(item, pri) places the item behind every queued item of the
\* same or a higher priority and counts it as unfinished.
QueuePut(q, p, c) ==
    LET k == Cardinality({j \in 1..Len(q) : q[j].pri >= p})
    IN  SubSeq(q, 1, k) \o <<[pri |-> p, c |-> c]>> \o SubSeq(q, k + 1, Len(q))

que_put(c, pri) ==
    /\ que' = QueuePut(que, pri, c)
    /\ unfinished' = unfinished + 1

\* get() blocks while the queue is empty, then takes the first item
que_get_ready == que # << >>
que_get_item == Head(que).c
que_get == que' = Tail(que)

\* task_done() counts one item as finished; join() blocks until none is left
que_task_done == unfinished' = unfinished - 1
que_join_ready == unfinished = 0

(* ------------------------------ callers ------------------------------- *)
\* calls are numbered in the order they are made
Issuable(c) ==
    /\ gbd = "running"
    /\ calls[c].st = "new"
    /\ \A d \in Calls : d < c => calls[d].st # "new"

Enqueued(c) == calls[c].st \in {"queued", "waiting", "returned", "raised"}
Outstanding(c) == Enqueued(c) /\ hist[c].delivered = << >>
IsWrite(c) == calls[c].data # NoData

\* history: the data a read of block idx put now is to return, when the last
\* write of idx returned to its synchronous caller and no other write of idx
\* was queued or running since that write was put
Expected(idx) ==
    LET ws == {d \in Calls : /\ calls[d].st = "returned" /\ IsWrite(d)
                             /\ calls[d].idx = idx /\ hist[d].alone}
    IN  IF ws = {} THEN NoData ELSE calls[CHOOSE d \in ws : TRUE].data

HistPut(c, idx, data) ==
    [d \in Calls |->
        IF d = c
        THEN [hist[c] EXCEPT
                !.expect = IF data = NoData THEN Expected(idx) ELSE NoData,
                !.alone = /\ data # NoData
                          /\ \A e \in Calls :
                                ~(Outstanding(e) /\ IsWrite(e) /\ calls[e].idx = idx)]
        ELSE IF data # NoData /\ Enqueued(d) /\ calls[d].idx = idx
        THEN [hist[d] EXCEPT
                !.alone = FALSE,
                !.expect = IF Outstanding(d) THEN NoData ELSE @]
        ELSE hist[d]]

\* self.que.put((idx, data, cb), pri)
Enqueue(c, idx, data, sink, pri) ==
    /\ calls' = [calls EXCEPT ![c] =
                    [@ EXCEPT !.st = IF sink = "sync" THEN "waiting" ELSE "queued",
                              !.idx = idx, !.data = data, !.sink = sink]]
    /\ que_put(c, pri)
    /\ hist' = HistPut(c, idx, data)

\* an assert of read_block / write_block fails in the caller
Reject(c) ==
    /\ calls' = [calls EXCEPT ![c].st = "rejected"]
    /\ UNCHANGED <<que, unfinished, hist>>

\* sync_io up to sem.acquire(): a fresh ret and sem, then the put
sync_io(c, idx, data, pri) == Enqueue(c, idx, data, "sync", pri)

\* read_block(idx, cb, pri)
GBD_read_block(c) ==
    /\ Issuable(c)
    /\ \E idx \in IdxInputs :
          IF ~(0 <= idx /\ idx < BlockCount)
          THEN Reject(c)
          ELSE \E sink \in Sinks, pri \in Pris :
                  IF sink # "sync"
                  THEN Enqueue(c, idx, NoData, sink, pri)
                  ELSE sync_io(c, idx, NoData, pri)
    /\ UNCHANGED <<config, gbd, objects, mapping, lock, wk>>

\* mutant of GBD_write_block: the assert on data is missing
GBD_write_block_unchecked(c) ==
    /\ Issuable(c)
    /\ \E idx \in IdxInputs :
          IF ~(0 <= idx /\ idx < BlockCount)
          THEN Reject(c)
          ELSE \E data \in Payloads \cup BadPayloads, sink \in Sinks, pri \in Pris :
                  /\ data # NoData
                  /\ IF sink # "sync"
                     THEN Enqueue(c, idx, data, sink, pri)
                     ELSE sync_io(c, idx, data, pri)
    /\ UNCHANGED <<config, gbd, objects, mapping, lock, wk>>


\* write_block(idx, data, cb, pri)
GBD_write_block(c) ==
    /\ Issuable(c)
    /\ \E idx \in IdxInputs :
          IF ~(0 <= idx /\ idx < BlockCount)
          THEN Reject(c)
          ELSE \E data \in Payloads \cup BadPayloads :
                  IF ~(data # << >> /\ Len(data) = BlockSize)
                  THEN Reject(c)
                  ELSE \E sink \in Sinks, pri \in Pris :
                          IF sink # "sync"
                          THEN Enqueue(c, idx, data, sink, pri)
                          ELSE sync_io(c, idx, data, pri)
    /\ UNCHANGED <<config, gbd, objects, mapping, lock, wk>>

\* sync_io from sem.acquire() on: take the pair out of ret, raise or return
sync_io_return(c) ==
    /\ calls[c].st = "waiting"
    /\ calls[c].sem > 0
    /\ LET box == calls[c].retbox
           pair == box[Len(box)]
       IN  calls' = [calls EXCEPT ![c] =
                [@ EXCEPT !.sem = @ - 1,
                          !.retbox = SubSeq(box, 1, Len(box) - 1),
                          !.st = IF pair[1] # NoErr THEN "raised" ELSE "returned",
                          !.out = IF pair[1] # NoErr THEN <<pair[1], NoneRet>>
                                  ELSE <<NoErr, pair[2]>>]]
    /\ UNCHANGED <<config, gbd, objects, mapping, lock, que, unfinished, wk, hist>>

\* GBD.sync: self.que.join() is entered
sync(c) ==
    /\ Issuable(c)
    /\ calls' = [calls EXCEPT ![c].st = "joining"]
    /\ UNCHANGED <<config, gbd, objects, mapping, lock, que, unfinished, wk, hist>>

\* join() returns once every put has had its task_done
sync_return(c) ==
    /\ calls[c].st = "joining"
    /\ que_join_ready
    /\ calls' = [calls EXCEPT ![c].st = "flushed"]
    /\ UNCHANGED <<config, gbd, objects, mapping, lock, que, unfinished, wk, hist>>

(* ------------------------------ workers ------------------------------- *)
Item(w) == wk[w].item
Idx(w) == calls[wk[w].item].idx
Data(w) == calls[wk[w].item].data

\* children().list(folderId=data_dir, q="title='gbd_b<idx>'"): the ids of the
\* objects of the data folder named for block idx
ListByName(idx) == {id \in 1..Len(objects) : objects[id].blk = idx}

\* read_block / write_block returns r to do_request, which returns it to run
Return(w, r) ==
    /\ wk' = [wk EXCEPT ![w] = [@ EXCEPT !.pc = "cb", !.ret = r, !.blkid = NoId,
                                         !.okAt = wk[w].rnd + 1, !.opres = r]]
    /\ hist' = hist

\* an exception that do_request does not handle reaches run: err = e
Raise(w, e) ==
    /\ wk' = [wk EXCEPT ![w] = [@ EXCEPT !.pc = "cb", !.err = e, !.blkid = NoId]]
    /\ hist' = hist

\* mutant of RemoteError: do_request sleeps and retries on every HttpError
RemoteError_retried(w) ==
    /\ wk' = [wk EXCEPT ![w] = [@ EXCEPT !.pc = "sleep", !.blkid = NoId]]
    /\ hist' = [hist EXCEPT ![Item(w)].rejected = TRUE]


\* the remote call raises an HttpError that is no rate-limit rejection:
\* do_request raises it again
RemoteError(w) ==
    /\ wk' = [wk EXCEPT ![w] = [@ EXCEPT !.pc = "cb", !.err = "HttpError",
                                         !.blkid = NoId]]
    /\ hist' = [hist EXCEPT ![Item(w)].rejected = TRUE]

\* HttpError 403 with reason rateLimitExceeded / userRateLimitExceeded is caught
\* by do_request, which goes to sleep
RateLimited(w) ==
    /\ wk' = [wk EXCEPT ![w] = [@ EXCEPT !.pc = "sleep", !.blkid = NoId, !.rl = @ + 1,
                                         !.rlAt = wk[w].pc]]
    /\ hist' = [hist EXCEPT ![Item(w)].rejected = TRUE]

\* the worker goes on inside read_block / write_block
Goto(w, where, id) ==
    /\ wk' = [wk EXCEPT ![w] = [@ EXCEPT !.pc = where, !.blkid = id]]
    /\ hist' = hist

\* run: idx, data, cb = self.gbd.que.get(), then do_request enters its loop
\* with rnd = 0 and calls read_block / write_block, which calls block_id
\* Workers blocked in get() are all alike (same code, same empty locals), so
\* the one that get() wakes is taken to be the lowest-numbered of them.
run_get(w) ==
    /\ wk[w].pc = "get"
    /\ \A v \in Workers : v < w => wk[v].pc # "get"
    /\ que_get_ready
    /\ que_get
    /\ wk' = [wk EXCEPT ![w] = [IdleWorker EXCEPT !.pc = "block_id",
                                    !.item = que_get_item, !.attempts = 1]]
    /\ hist' = [hist EXCEPT ![que_get_item].takers = @ \cup {w}]
    /\ UNCHANGED <<config, gbd, objects, mapping, lock, unfinished, calls>>

\* read_block / write_block up to block_id's with self.lock (entered);
\* write_block first asserts len(data) == block_size
block_id_acquire(w) ==
    /\ wk[w].pc = "block_id"
    /\ IF Data(w) # NoData /\ Len(Data(w)) # BlockSize
       THEN Raise(w, "AssertionError") /\ lock' = lock
       ELSE /\ lock = 0
            /\ lock' = w
            /\ wk' = [wk EXCEPT ![w] = [@ EXCEPT !.pc = "block_id_cs",
                                                 !.resolves = @ + 1]]
            /\ hist' = hist
    /\ UNCHANGED <<config, gbd, objects, mapping, que, unfinished, calls>>

\* read_block and write_block, from the return of block_id to their next call
after_block_id(w, id) ==
    IF Data(w) = NoData
    THEN IF id = NoId THEN Return(w, Bytes(ZeroBlock)) ELSE Goto(w, "get_media", id)
    ELSE IF id = NoId THEN Goto(w, "new_block", NoId) ELSE Goto(w, "update", id)

\* mutant of block_id: with several objects of the name, the first is taken
block_id_first_match(w) ==
    /\ wk[w].pc = "block_id_cs"
    /\ lock' = 0
    /\ IF mapping[Idx(w)] # NoId
       THEN after_block_id(w, mapping[Idx(w)]) /\ mapping' = mapping
       ELSE \E o \in RemoteOutcomes :
              IF o = "rate" THEN RateLimited(w) /\ mapping' = mapping
              ELSE IF o = "other" THEN RemoteError(w) /\ mapping' = mapping
              ELSE LET items == ListByName(Idx(w)) IN
                   IF items # {}
                   THEN LET id == CHOOSE x \in items : \A y \in items : x <= y IN
                        /\ mapping' = [mapping EXCEPT ![Idx(w)] = id]
                        /\ after_block_id(w, id)
                   ELSE after_block_id(w, NoId) /\ mapping' = mapping
    /\ UNCHANGED <<config, gbd, objects, que, unfinished, calls>>


\* block_id inside the lock: the slot, looked up in the store when it is None
block_id(w) ==
    /\ wk[w].pc = "block_id_cs"
    /\ lock' = 0
    /\ IF Idx(w) >= BlockCount \/ Idx(w) < 0
       THEN Raise(w, "IndexError") /\ mapping' = mapping
       ELSE IF mapping[Idx(w)] # NoId
       THEN after_block_id(w, mapping[Idx(w)]) /\ mapping' = mapping
       ELSE \E o \in RemoteOutcomes :
              IF o = "rate" THEN RateLimited(w) /\ mapping' = mapping
              ELSE IF o = "other" THEN RemoteError(w) /\ mapping' = mapping
              ELSE LET items == ListByName(Idx(w)) IN
                   IF Cardinality(items) = 1
                   THEN LET id == CHOOSE x \in items : TRUE IN
                        /\ mapping' = [mapping EXCEPT ![Idx(w)] = id]
                        /\ after_block_id(w, id)
                   ELSE IF Cardinality(items) # 0
                   THEN Raise(w, "AssertionError") /\ mapping' = mapping
                   ELSE after_block_id(w, NoId) /\ mapping' = mapping
    /\ UNCHANGED <<config, gbd, objects, que, unfinished, calls>>

\* read_block of a mapped block: files().get_media(fileId=blkid), the assert
GBDWorker_read_block(w) ==
    /\ wk[w].pc = "get_media"
    /\ \E o \in RemoteOutcomes :
          IF o = "rate" THEN RateLimited(w)
          ELSE IF o = "other" THEN RemoteError(w)
          ELSE LET results == objects[wk[w].blkid].content IN
               IF Len(results) = BlockSize
               THEN Return(w, Bytes(results))
               ELSE Raise(w, "AssertionError")
    /\ UNCHANGED <<config, gbd, objects, mapping, lock, que, unfinished, calls>>

\* write_block of a mapped block: files().update(fileId=blkid, media_body)
GBDWorker_write_block(w) ==
    /\ wk[w].pc = "update"
    /\ \E o \in RemoteOutcomes :
          IF o = "rate" THEN RateLimited(w) /\ objects' = objects
          ELSE IF o = "other" THEN RemoteError(w) /\ objects' = objects
          ELSE /\ objects' = [objects EXCEPT ![wk[w].blkid].content = Data(w)]
               /\ Return(w, File(wk[w].blkid))
    /\ UNCHANGED <<config, gbd, mapping, lock, que, unfinished, calls>>

\* new_block: with self.lock (entered)
new_block_acquire(w) ==
    /\ wk[w].pc = "new_block"
    /\ lock = 0
    /\ lock' = w
    /\ wk' = [wk EXCEPT ![w].pc = "new_block_cs"]
    /\ UNCHANGED <<config, gbd, objects, mapping, que, unfinished, calls, hist>>

\* mutant of new_block: the slot is not checked before the insert
new_block_unchecked(w) ==
    /\ wk[w].pc = "new_block_cs"
    /\ lock' = 0
    /\ \E o \in RemoteOutcomes :
          IF o = "rate" THEN RateLimited(w) /\ UNCHANGED <<objects, mapping>>
          ELSE IF o = "other" THEN RemoteError(w) /\ UNCHANGED <<objects, mapping>>
          ELSE LET id == Len(objects) + 1 IN
               /\ objects' = Append(objects,
                     [blk |-> Idx(w), content |-> Data(w), by |-> Item(w)])
               /\ mapping' = [mapping EXCEPT ![Idx(w)] = id]
               /\ Return(w, File(id))
    /\ UNCHANGED <<config, gbd, que, unfinished, calls>>

\* mutant of new_block: the lock is released on the normal return only (an
\* acquire / release pair in place of the with statement)
new_block_lock_kept_on_raise(w) ==
    /\ wk[w].pc = "new_block_cs"
    /\ IF mapping[Idx(w)] # NoId
       THEN Raise(w, "ValueError") /\ UNCHANGED <<objects, mapping, lock>>
       ELSE \E o \in RemoteOutcomes :
              IF o = "rate"
              THEN RateLimited(w) /\ UNCHANGED <<objects, mapping, lock>>
              ELSE IF o = "other"
              THEN RemoteError(w) /\ UNCHANGED <<objects, mapping, lock>>
              ELSE LET id == Len(objects) + 1 IN
                   /\ objects' = Append(objects,
                         [blk |-> Idx(w), content |-> Data(w), by |-> Item(w)])
                   /\ mapping' = [mapping EXCEPT ![Idx(w)] = id]
                   /\ lock' = 0
                   /\ Return(w, File(id))
    /\ UNCHANGED <<config, gbd, que, unfinished, calls>>


\* new_block inside the lock: the checks, files().insert, the slot is set
new_block(w) ==
    /\ wk[w].pc = "new_block_cs"
    /\ lock' = 0
    /\ IF Idx(w) >= BlockCount \/ Idx(w) < 0
       THEN Raise(w, "ValueError") /\ UNCHANGED <<objects, mapping>>
       ELSE IF mapping[Idx(w)] # NoId
       THEN Raise(w, "ValueError") /\ UNCHANGED <<objects, mapping>>
       ELSE IF Len(Data(w)) # BlockSize
       THEN Raise(w, "AssertionError") /\ UNCHANGED <<objects, mapping>>
       ELSE \E o \in RemoteOutcomes :
              IF o = "rate" THEN RateLimited(w) /\ UNCHANGED <<objects, mapping>>
              ELSE IF o = "other"
              THEN RemoteError(w) /\ UNCHANGED <<objects, mapping>>
              ELSE LET id == Len(objects) + 1 IN
                   /\ objects' = Append(objects,
                         [blk |-> Idx(w), content |-> Data(w), by |-> Item(w)])
                   /\ mapping' = [mapping EXCEPT ![Idx(w)] = id]
                   /\ Return(w, File(id))
    /\ UNCHANGED <<config, gbd, que, unfinished, calls>>

\* mutant of do_request_backoff: the loop runs one round more
do_request_backoff_one_more(w) ==
    /\ wk[w].pc = "sleep"
    /\ IF wk[w].rnd + 1 <= MaxAttempts
       THEN wk' = [wk EXCEPT ![w] = [@ EXCEPT !.pc = "block_id", !.rnd = @ + 1,
                                             !.attempts = @ + 1, !.rlAt = "none"]]
       ELSE wk' = [wk EXCEPT ![w] = [@ EXCEPT !.pc = "cb", !.rnd = @ + 1,
                                             !.ret = NoneRet]]
    /\ hist' = hist
    /\ UNCHANGED <<config, gbd, objects, mapping, lock, que, unfinished, calls>>

\* do_request after a rate-limit rejection: time.sleep(2 ** rnd + jitter), then
\* continue; the for loop starts its next round, or is over and do_request
\* returns None
do_request_backoff(w) ==
    /\ wk[w].pc = "sleep"
    /\ IF wk[w].rnd + 1 < MaxAttempts
       THEN wk' = [wk EXCEPT ![w] = [@ EXCEPT !.pc = "block_id", !.rnd = @ + 1,
                                             !.attempts = @ + 1, !.rlAt = "none"]]
       ELSE wk' = [wk EXCEPT ![w] = [@ EXCEPT !.pc = "cb", !.rnd = @ + 1,
                                             !.ret = NoneRet]]
    /\ hist' = hist
    /\ UNCHANGED <<config, gbd, objects, mapping, lock, que, unfinished, calls>>

\* mutant of mycb: ret and sem are shared by all calls (those of the first)
mycb_shared(c, param) ==
    calls' = [calls EXCEPT ![1] =
                [@ EXCEPT !.retbox = Append(@, param), !.sem = @ + 1]]

\* mutant of mycb: the pair is stored but the semaphore is not released
mycb_no_release(c, param) ==
    calls' = [calls EXCEPT ![c] = [@ EXCEPT !.retbox = Append(@, param)]]


\* sync_io's mycb(*param): ret.append(param); sem.release()
mycb(c, param) ==
    calls' = [calls EXCEPT ![c] =
                [@ EXCEPT !.retbox = Append(@, param), !.sem = @ + 1]]

\* mutant of run_callback: the callback is called only when there is no error
run_callback_not_on_error(w) ==
    /\ wk[w].pc = "cb"
    /\ wk' = [wk EXCEPT ![w].pc = "task_done"]
    /\ IF wk[w].err # NoErr
       THEN UNCHANGED <<calls, hist>>
       ELSE /\ hist' = [hist EXCEPT ![Item(w)].delivered =
                            Append(@, <<wk[w].err, wk[w].ret>>)]
            /\ IF calls[Item(w)].sink = "sync"
               THEN mycb(Item(w), <<wk[w].err, wk[w].ret>>)
               ELSE calls' = calls
    /\ UNCHANGED <<config, gbd, objects, mapping, lock, que, unfinished>>

\* mutant of run_callback: an exception of the callback is not caught; it ends
\* the worker's thread before task_done
run_callback_uncaught(w) ==
    /\ wk[w].pc = "cb"
    /\ IF calls[Item(w)].sink = "sync"
       THEN /\ mycb(Item(w), <<wk[w].err, wk[w].ret>>)
            /\ hist' = [hist EXCEPT ![Item(w)].delivered =
                            Append(@, <<wk[w].err, wk[w].ret>>)]
            /\ wk' = [wk EXCEPT ![w].pc = "task_done"]
       ELSE /\ calls' = calls
            /\ \E raised \in BOOLEAN :
                  /\ hist' = [hist EXCEPT ![Item(w)] =
                            [@ EXCEPT !.delivered = Append(@, <<wk[w].err, wk[w].ret>>),
                                      !.cbraised = raised]]
                  /\ wk' = [wk EXCEPT ![w] =
                            IF raised THEN [IdleWorker EXCEPT !.pc = "dead"]
                            ELSE [@ EXCEPT !.pc = "task_done"]]
    /\ UNCHANGED <<config, gbd, objects, mapping, lock, que, unfinished>>

\* run: cb(err, ret) in the finally clause; mycb does not raise, a caller's
\* callback returns or raises, and its exception is caught and logged
run_callback(w) ==
    /\ wk[w].pc = "cb"
    /\ wk' = [wk EXCEPT ![w].pc = "task_done"]
    /\ IF calls[Item(w)].sink = "sync"
       THEN /\ mycb(Item(w), <<wk[w].err, wk[w].ret>>)
            /\ hist' = [hist EXCEPT ![Item(w)].delivered =
                            Append(@, <<wk[w].err, wk[w].ret>>)]
       ELSE /\ calls' = calls
            /\ \E raised \in BOOLEAN :
                  hist' = [hist EXCEPT ![Item(w)] =
                            [@ EXCEPT !.delivered = Append(@, <<wk[w].err, wk[w].ret>>),
                                      !.cbraised = raised]]
    /\ UNCHANGED <<config, gbd, objects, mapping, lock, que, unfinished>>

\* run: self.gbd.que.task_done() in the inner finally clause, then the loop
run_task_done(w) ==
    /\ wk[w].pc = "task_done"
    /\ que_task_done
    /\ hist' = [hist EXCEPT ![Item(w)].tdone = @ + 1]
    /\ wk' = [wk EXCEPT ![w] = IdleWorker]
    /\ UNCHANGED <<config, gbd, objects, mapping, lock, que, calls>>

(* --------------------------- specification ---------------------------- *)
Next ==
    \/ GBD_init
    \/ \E c \in Calls : GBD_read_block(c)
    \/ \E c \in Calls : GBD_write_block(c)
    \/ \E c \in Calls : sync_io_return(c)
    \/ \E c \in Calls : sync(c)
    \/ \E c \in Calls : sync_return(c)
    \/ \E w \in Workers : run_get(w)
    \/ \E w \in Workers : block_id_acquire(w)
    \/ \E w \in Workers : block_id(w)
    \/ \E w \in Workers : GBDWorker_read_block(w)
    \/ \E w \in Workers : GBDWorker_write_block(w)
    \/ \E w \in Workers : new_block_acquire(w)
    \/ \E w \in Workers : new_block(w)
    \/ \E w \in Workers : do_request_backoff(w)
    \/ \E w \in Workers : run_callback(w)
    \/ \E w \in Workers : run_task_done(w)

Spec == Init /\ [][Next]_vars
(* ------------------- the index operations called directly ------------- *)
\* GBD.block_id and GBD.new_block are methods of the device object: a thread
\* that holds the object can call read_block / write_block of GBDWorker's kind
\* (block_id, then the data call or new_block) or new_block alone.  Here the
\* device is open and wk holds the locals of the calling threads.
InitIndex ==
    /\ objects \in InitStores
    /\ mapping = [i \in Blocks |-> NoId]
    /\ lock = 0
    /\ que = << >>
    /\ unfinished = 0
    /\ wk = [w \in Workers |-> IdleWorker]
    /\ calls = [c \in Calls |-> NewCall]
    /\ hist = [c \in Calls |-> NewHist]
    /\ config = ExpectedVersion
    /\ gbd = "running"

\* a thread calls block_id(idx) as read_block / write_block do, or calls
\* new_block(idx, data)
direct_call(w) ==
    /\ wk[w].pc = "get"
    /\ \E c \in Calls, idx \in Blocks, data \in Payloads \cup {NoData},
          entry \in {"block_id", "new_block"} :
          /\ Issuable(c)
          /\ entry = "new_block" => data # NoData
          /\ calls' = [calls EXCEPT ![c] =
                          [@ EXCEPT !.st = "direct", !.idx = idx, !.data = data]]
          /\ wk' = [wk EXCEPT ![w] = [IdleWorker EXCEPT !.pc = entry, !.item = c,
                                                        !.attempts = 1]]
    /\ UNCHANGED <<config, gbd, objects, mapping, lock, que, unfinished, hist>>

\* the call returns or raises to the thread that made it
direct_return(w) ==
    /\ wk[w].pc \in {"cb", "sleep"}
    /\ wk' = [wk EXCEPT ![w] = IdleWorker]
    /\ UNCHANGED <<config, gbd, objects, mapping, lock, que, unfinished, calls, hist>>

NextIndex ==
    \/ \E w \in Workers : direct_call(w)
    \/ \E w \in Workers : block_id_acquire(w)
    \/ \E w \in Workers : block_id(w)
    \/ \E w \in Workers : GBDWorker_read_block(w)
    \/ \E w \in Workers : GBDWorker_write_block(w)
    \/ \E w \in Workers : new_block_acquire(w)
    \/ \E w \in Workers : new_block(w)
    \/ \E w \in Workers : direct_return(w)

SpecIndex == InitIndex /\ [][NextIndex]_vars

(* ------------------------- what the claims use ------------------------ *)
Last(q) == q[Len(q)]
\* the write items put for block i
WritesOf(i) == {c \in Calls : Enqueued(c) /\ IsWrite(c) /\ calls[c].idx = i}
\* block i had no object in the data folder when the device was opened
Unbacked(i) == \A id \in ListByName(i) : objects[id].by # 0
\* the callback of item c has been called
Completed(c) == hist[c].delivered # << >>
\* the workers that hold item c, and the places of c in the queue
Holders(c) == {w \in Workers : wk[w].item = c}
QueuePlaces(c) == {j \in 1..Len(que) : que[j].c = c}

(* -------------------------------- C1 ---------------------------------- *)
\* C1 as stated: once every write item put for a block that had no object has
\* completed, the store holds exactly one object named for the block.
C1_ExactlyOneObject ==
    \A i \in Blocks :
        (/\ Unbacked(i)
         /\ WritesOf(i) # {}
         /\ \A c \in WritesOf(i) : Completed(c))
        => Cardinality(ListByName(i)) = 1

\* C1 amended: for a block that had no object, the store never holds more than
\* one object named for it, whatever the workers and the interleaving; and once
\* every write item put for it has completed, it holds exactly one, provided
\* the store rejected no remote call of at least one of those writes.
C1_AtMostOneObject ==
    \A i \in Blocks :
        Unbacked(i) =>
            /\ Cardinality(ListByName(i)) <= 1
            /\ (/\ WritesOf(i) # {}
                /\ \A c \in WritesOf(i) : Completed(c)
                /\ \E c \in WritesOf(i) : ~hist[c].rejected)
               => Cardinality(ListByName(i)) = 1

\* two writes of one block raced (the loser got new_block's ValueError), both
\* completed, and one object exists
C1_Witness ==
    \E i \in Blocks :
        /\ Unbacked(i)
        /\ Cardinality(WritesOf(i)) >= 2
        /\ \A c \in WritesOf(i) : Completed(c) /\ ~hist[c].rejected
        /\ \E c \in WritesOf(i) : hist[c].delivered[1][1] = "ValueError"
        /\ Cardinality(ListByName(i)) = 1

(* -------------------------------- C2 ---------------------------------- *)
\* C2: with no remote call rejected, no write item put for a block that had no
\* object has an error delivered to its callback, and once they all completed
\* the block's content is the data of one of them.
C2_NoConcurrentWriterFails ==
    \A i \in Blocks :
        (Unbacked(i) /\ \A c \in Calls : ~hist[c].rejected) =>
            /\ \A c \in WritesOf(i) :
                  Completed(c) => hist[c].delivered[1][1] = NoErr
            /\ (WritesOf(i) # {} /\ \A c \in WritesOf(i) : Completed(c))
               => \E id \in ListByName(i) :
                     objects[id].content \in {calls[c].data : c \in WritesOf(i)}

(* -------------------------------- C3 ---------------------------------- *)
\* C3: an item whose operation was rejected for the rate limit on all 5
\* attempts has an error delivered to its callback (and no result); it is
\* never reported as completed with no error.
C3_ExhaustionIsAnError ==
    \A w \in Workers :
        (wk[w].pc = "task_done" /\ wk[w].rl = MaxAttempts)
        => /\ Last(hist[Item(w)].delivered)[1] # NoErr
           /\ Last(hist[Item(w)].delivered)[2] = NoneRet

(* -------------------------------- C4 ---------------------------------- *)
\* C4: a synchronous read of block i that returns, put after a synchronous
\* write(i, data) returned and with no other write of i since that write was
\* put, returns exactly data.
C4_WriteThenRead ==
    \A c \in Calls :
        (/\ calls[c].st = "returned"
         /\ ~IsWrite(c)
         /\ hist[c].expect # NoData)
        => calls[c].out = <<NoErr, Bytes(hist[c].expect)>>

(* -------------------------------- C5 ---------------------------------- *)
\* C5: when sync() has returned, the callback of every work item put before
\* sync() was called has been called, also when the operation or the callback
\* raised.
C5_FlushBarrier ==
    \A c \in Calls :
        calls[c].st = "flushed" =>
            \A d \in Calls : (d < c /\ Enqueued(d)) => Completed(d)

\* sync() returned after an item whose operation raised and an asynchronous
\* item whose callback raised
C5_Witness ==
    \E c \in Calls :
        /\ calls[c].st = "flushed"
        /\ \E d \in Calls : d < c /\ Enqueued(d)
                            /\ hist[d].delivered[1][1] # NoErr
                            /\ hist[d].cbraised

(* -------------------------------- C6 ---------------------------------- *)
\* C6: no work item is attempted more than 5 times; and when its operation
\* succeeds on attempt k+1 after k rate-limit rejections (k <= 4), the callback
\* is called with no error and the result of that attempt.
C6_RetryThenSuccess ==
    \A w \in Workers :
        /\ wk[w].attempts <= MaxAttempts
        /\ (wk[w].pc = "task_done" /\ wk[w].okAt > 0) =>
              /\ wk[w].okAt = wk[w].rl + 1
              /\ wk[w].rl <= MaxAttempts - 1
              /\ Last(hist[Item(w)].delivered) = <<NoErr, wk[w].opres>>

\* an operation rejected 4 times succeeded on the 5th attempt and its written
\* object or read bytes were delivered
C6_Witness ==
    \E w \in Workers :
        /\ wk[w].pc = "task_done"
        /\ wk[w].rl = MaxAttempts - 1
        /\ wk[w].okAt = MaxAttempts
        /\ wk[w].opres # NoneRet
        /\ Last(hist[Item(w)].delivered) = <<NoErr, wk[w].opres>>

(* -------------------------------- C7 ---------------------------------- *)
\* C7: a read of a block with no object that returns no error returns a block
\* of zero bytes and leaves the slot None; no object is ever made by a read.
C7_ReadOfUnwrittenBlock ==
    /\ \A w \in Workers :
          (/\ wk[w].pc = "task_done"
           /\ ~IsWrite(Item(w))
           /\ ListByName(Idx(w)) = {}
           /\ wk[w].err = NoErr)
          => /\ Last(hist[Item(w)].delivered) = <<NoErr, Bytes(ZeroBlock)>>
             /\ mapping[Idx(w)] = NoId
    /\ \A id \in 1..Len(objects) :
          objects[id].by # 0 => IsWrite(objects[id].by)

(* -------------------------------- C8 ---------------------------------- *)
\* the part of C8 about consumption: a work item is, at any time, either in
\* the queue once, or held by one worker, or done; it is taken by at most one
\* worker, and its callback is called at most once, exactly once before
\* task_done, with the (err, ret) its worker ended with
ConsumedOnce ==
    \A c \in Calls :
        /\ Cardinality(hist[c].takers) <= 1
        /\ Len(hist[c].delivered) <= 1
        /\ IF Enqueued(c)
           THEN Cardinality(QueuePlaces(c)) + Cardinality(Holders(c))
                    + (IF hist[c].tdone > 0 THEN 1 ELSE 0) = 1
           ELSE QueuePlaces(c) = {} /\ Holders(c) = {} /\ ~Completed(c)
        /\ hist[c].tdone > 0 => Len(hist[c].delivered) = 1
        /\ \A w \in Holders(c) :
              /\ wk[w].pc \in {"get", "block_id", "block_id_cs", "get_media",
                              "update", "new_block", "new_block_cs", "sleep", "cb"}
                 => ~Completed(c)
              /\ wk[w].pc = "task_done"
                 => hist[c].delivered = << <<wk[w].err, wk[w].ret>> >>

\* C8: every work item is consumed by exactly one worker and its callback is
\* called exactly once, with (None, result) on success or (error, None) on
\* failure: a pair with no error carries a result, a pair with an error
\* carries None.
C8_ExactlyOnce ==
    /\ ConsumedOnce
    /\ \A c \in Calls :
          Completed(c) =>
              LET pair == hist[c].delivered[1] IN
              \/ pair[1] = NoErr /\ pair[2] # NoneRet
              \/ pair[1] # NoErr /\ pair[2] = NoneRet

(* -------------------------------- C9 ---------------------------------- *)
\* C9: task_done is called once for every item a worker took, at the end of
\* its processing, also when the operation or the callback raised; a worker
\* that holds no item is back in get().
C9_TaskDoneOnce ==
    /\ \A c \in Calls :
          /\ hist[c].tdone <= 1
          /\ (hist[c].takers # {} /\ Holders(c) = {}) => hist[c].tdone = 1
          /\ Holders(c) # {} => hist[c].tdone = 0
    /\ \A w \in Workers : wk[w].item = 0 <=> wk[w].pc \in {"get", "unstarted"}

\* the callback of an item whose operation raised has raised too, task_done
\* was called for it, and the same worker has taken the next item
C9_Witness ==
    \E c, d \in Calls, w \in Workers :
        /\ c # d
        /\ hist[c].cbraised
        /\ hist[c].delivered[1][1] # NoErr
        /\ hist[c].tdone = 1
        /\ hist[c].takers = {w}
        /\ wk[w].item = d

(* -------------------------------- C10 --------------------------------- *)
\* C10: a synchronous caller stays blocked until the callback of its own item
\* was called; it then returns the ret, or raises the err, that its own item's
\* worker ended with; ret and sem of a call are handed over once.
C10_SyncBridge ==
    \A c \in Calls :
        (Enqueued(c) /\ calls[c].sink = "sync") =>
            /\ calls[c].sem = Len(calls[c].retbox)
            /\ calls[c].sem <= 1
            /\ ~Completed(c) => calls[c].st = "waiting" /\ calls[c].sem = 0
            /\ (Completed(c) /\ calls[c].st = "waiting")
               => calls[c].retbox = hist[c].delivered
            /\ calls[c].st \in {"returned", "raised"} =>
                  /\ calls[c].sem = 0
                  /\ Len(hist[c].delivered) = 1
                  /\ LET pair == hist[c].delivered[1] IN
                     IF pair[1] # NoErr
                     THEN calls[c].st = "raised" /\ calls[c].out = <<pair[1], NoneRet>>
                     ELSE calls[c].st = "returned" /\ calls[c].out = <<NoErr, pair[2]>>

\* two synchronous calls were in progress together; one has returned its
\* result and the other has raised its error
C10_Witness ==
    \E c, d \in Calls :
        /\ calls[c].sink = "sync" /\ calls[d].sink = "sync"
        /\ calls[c].st = "returned" /\ calls[c].out[2] # NoneRet
        /\ calls[d].st = "raised"
        /\ hist[c].takers # hist[d].takers

NothingOfRejected ==
    \A c \in Calls :
        /\ Enqueued(c) =>
              /\ calls[c].idx \in Blocks
              /\ IsWrite(c) => Len(calls[c].data) = BlockSize
        /\ calls[c].st = "rejected" =>
              /\ QueuePlaces(c) = {} /\ Holders(c) = {}
              /\ hist[c].takers = {} /\ ~Completed(c)

\* the step that rejects a call leaves the queue, the count of unfinished
\* tasks, the store, the table and the workers as they are
RejectChangesNothing ==
    \A c \in Calls :
        (calls[c].st = "new" /\ calls'[c].st = "rejected")
        => UNCHANGED <<objects, mapping, lock, que, unfinished, wk, hist>>

\* C12: a read or write with an index outside [0, block_count), or a write
\* with len(data) # block_size, fails in the caller, synchronous or not,
\* without enqueuing an item, without changing the count of unfinished tasks
\* and without a remote call.
C12_InvalidRejectedFirst == [](NothingOfRejected) /\ [][RejectChangesNothing]_vars

\* a call was rejected while an earlier item was still counted as unfinished
\* and held by a worker inside a remote call's critical section
C12_Witness ==
    \E c, d \in Calls :
        /\ d < c
        /\ calls[c].st = "rejected"
        /\ Enqueued(d) /\ ~Completed(d)
        /\ unfinished = 1
        /\ \E w \in Workers : wk[w].item = d /\ lock = w

(* -------------------------------- C13 --------------------------------- *)
\* the step in which block_id, called by worker w, returns or raises
ResolveStep(w) == wk[w].pc = "block_id_cs" /\ wk'[w].pc # "block_id_cs"

\* what that step does, by the number n of objects named for the block: the
\* caller goes on with an id (mapped), or with None (unmapped: a write goes to
\* new_block, a read returns zero bytes), or gets the AssertionError
ResolveClassifies(w) ==
    LET i == Idx(w)
        n == Cardinality(ListByName(i))
        failed == wk'[w].pc = "sleep" \/ wk'[w].err = "HttpError"
        mapped == wk'[w].pc \in {"get_media", "update"}
        unmapped == \/ wk'[w].pc = "new_block"
                    \/ /\ wk'[w].pc = "cb" /\ wk'[w].err = NoErr
                       /\ wk'[w].ret = Bytes(ZeroBlock)
        ambiguous == wk'[w].pc = "cb" /\ wk'[w].err = "AssertionError"
    IN  /\ failed => mapping' = mapping
        /\ ~failed => /\ n = 1 => mapped
                      /\ n = 0 => unmapped
                      /\ n > 1 => ambiguous
        /\ mapped => /\ n = 1
                     /\ wk'[w].blkid \in ListByName(i)
                     /\ mapping'[i] = wk'[w].blkid
        /\ unmapped => n = 0 /\ mapping'[i] = NoId
        /\ ambiguous => n > 1 /\ mapping' = mapping /\ mapping[i] = NoId

\* C13: block_id classifies a slot by the number of objects of the block's
\* name in the data folder: one gives that object's id, none gives None, more
\* than one raises and leaves the slot as it was, with no id cached.
C13_ResolveClassifies ==
    [][\A w \in Workers : ResolveStep(w) => ResolveClassifies(w)]_vars

\* block_id found two objects of the block's name: the worker has the
\* AssertionError and the slot is still None
C13_Witness ==
    \E w \in Workers :
        /\ wk[w].pc = "cb"
        /\ wk[w].err = "AssertionError"
        /\ wk[w].resolves = 1
        /\ Cardinality(ListByName(Idx(w))) = 2
        /\ mapping[Idx(w)] = NoId

(* -------------------------------- C14 --------------------------------- *)
\* the step in which new_block, called by thread w, returns or raises
AllocateStep(w) == wk[w].pc = "new_block_cs" /\ wk'[w].pc # "new_block_cs"

\* the objects of block i made since the device was opened, and those found
CreatedFor(i) == {id \in ListByName(i) : objects[id].by # 0}
FoundFor(i) == {id \in ListByName(i) : objects[id].by = 0}

\* new_block on a block that has an object raises ValueError, creates nothing
\* and leaves the slot
AllocateIsCreateOnly ==
    \A w \in Workers :
        (AllocateStep(w) /\ ListByName(Idx(w)) # {})
        => /\ wk'[w].pc = "cb" /\ wk'[w].err = "ValueError"
           /\ objects' = objects
           /\ mapping' = mapping

\* no block gets a second object: none is made for a block that had one at
\* open time, and at most one for a block that had none
NoSecondObject ==
    \A i \in Blocks :
        Cardinality(CreatedFor(i)) + (IF FoundFor(i) # {} THEN 1 ELSE 0) <= 1

\* C14: new_block on a block that already has a backing object fails with the
\* already-mapped error, creates no object and does not change the slot; after
\* any sequence of block_id and new_block calls no block has got a second
\* backing object.
C14_AllocateCreateOnly == [](NoSecondObject) /\ [][AllocateIsCreateOnly]_vars

(* -------------------------------- C15 --------------------------------- *)
\* the client handle of worker w: GBDWorker(self, self.build_service())
Drive(w) == w

\* the handle through which the remote call made at a place of the code goes:
\* block_id and new_block use the device's self.drive, read_block and
\* write_block the worker's self.drive
HandleOfSite(w, site) ==
    IF site \in {"block_id_cs", "new_block_cs"} THEN GBD_drive ELSE Drive(w)

\* worker w is at a remote call: the list of block_id (made when the slot is
\* None), the insert of new_block (made when the slot is None), get_media,
\* update
AtRemoteCall(w) ==
    \/ wk[w].pc \in {"block_id_cs", "new_block_cs"} /\ mapping[Idx(w)] = NoId
    \/ wk[w].pc \in {"get_media", "update"}

\* the handles that have issued a remote call for the item worker w holds, as
\* its locals show: the call it is at; the call that was last rejected for the
\* rate limit; the list of block_id when w is in or before new_block (block_id
\* returns None only after a list)
HandlesUsed(w) ==
    (IF AtRemoteCall(w) THEN {HandleOfSite(w, wk[w].pc)} ELSE {})
        \cup (IF wk[w].rlAt # "none" THEN {HandleOfSite(w, wk[w].rlAt)} ELSE {})
        \cup (IF wk[w].pc \in {"new_block", "new_block_cs"} THEN {GBD_drive} ELSE {})

\* C15: no client handle issues remote calls for two different workers.
C15_HandlePrivate ==
    \A v, w \in Workers :
        v # w => HandlesUsed(v) \cap HandlesUsed(w) = {}

(* -------------------------------- C16 --------------------------------- *)
\* slot i was resolved before, as the state shows: an id is cached in it, or a
\* completed read of block i got zero bytes with no error, which read_block
\* returns only when block_id returned None (no stored block is all zero here)
ResolvedBefore(i) ==
    \/ mapping[i] # NoId
    \/ \E d \in Calls :
          /\ ~IsWrite(d) /\ calls[d].idx = i
          /\ hist[d].delivered = << <<NoErr, Bytes(ZeroBlock)>> >>

\* C16: once a resolve of slot i has returned mapped or unmapped, a later
\* block_id of slot i answers from the table: it is not about to list the
\* store again (which it does exactly when the slot is None).
C16_ResolvedOnce ==
    \A w \in Workers :
        (wk[w].pc = "block_id_cs" /\ ResolvedBefore(Idx(w)))
        => ~AtRemoteCall(w)

(* -------------------------------- C18 --------------------------------- *)
\* C18: block_id is called once for a work item, whatever the number of
\* retries, and a worker does not sleep and retry after a rate-limit rejection
\* of block_id's own lookup.
C18_RetryWrapsDataCallOnly ==
    \A w \in Workers :
        /\ wk[w].resolves <= 1
        /\ ~(wk[w].pc = "sleep" /\ wk[w].rlAt = "block_id_cs")

(* -------------------------------- C17 --------------------------------- *)
\* C17: when the version in the config file differs from the expected one,
\* the open never succeeds, and a device whose open has not succeeded has no
\* started worker and no work item: nothing is queued or counted, and no call
\* of read_block, write_block or sync was accepted.
C17_NoStartOnMismatch ==
    /\ config \notin {NoConfig, ExpectedVersion} => gbd # "running"
    /\ gbd # "running" =>
          /\ \A w \in Workers : wk[w].pc = "unstarted"
          /\ que = << >> /\ unfinished = 0
          /\ \A c \in Calls : calls[c].st = "new"

\* the open was aborted by the version check
C17_Witness ==
    /\ gbd = "raised"
    /\ config = OtherVersion
    /\ \A w \in Workers : wk[w].pc = "unstarted"

(* -------------------------------- C19 --------------------------------- *)
\* C19: the lock is held only by a worker that is inside block_id or
\* new_block, between entering the with statement and the end of the one
\* remote call made there: no worker holds it while it sleeps in a backoff,
\* waits in que.get(), calls a callback or task_done, and a worker that left
\* block_id or new_block, by return or by exception, has released it.
C19_LockOnlyInsideIndex ==
    /\ lock \in Workers \cup {0}
    /\ \A w \in Workers :
          lock = w <=> wk[w].pc \in {"block_id_cs", "new_block_cs"}

\* a worker sleeps in a backoff after a remote call inside new_block was
\* rejected, and the other worker has taken the lock since
C19_Witness ==
    \E v, w \in Workers :
        /\ v # w
        /\ wk[v].pc = "sleep" /\ wk[v].rlAt = "new_block_cs"
        /\ lock = w

(* -------------------------------- C20 --------------------------------- *)
\* the runs checked for progress: the device is opened on a data folder with
\* the expected config and no block object; the calls are valid ones, of
\* normal priority, with one payload
LiveInputs ==
    /\ \A c \in Calls : calls[c].st # "rejected" /\ calls[c].data \in {NoData, Fill(1)}
    /\ \A j \in 1..Len(que) : que[j].pri = PRI_NORMAL

InitLive == Init /\ config = ExpectedVersion /\ objects = << >>

NextLive ==
    \/ GBD_init
    \/ \E c \in Calls : GBD_read_block(c) /\ LiveInputs'
    \/ \E c \in Calls : GBD_write_block(c) /\ LiveInputs'
    \/ \E c \in Calls : sync_io_return(c)
    \/ \E c \in Calls : sync(c)
    \/ \E c \in Calls : sync_return(c)
    \/ \E w \in Workers : run_get(w)
    \/ \E w \in Workers : block_id_acquire(w)
    \/ \E w \in Workers : block_id(w)
    \/ \E w \in Workers : GBDWorker_read_block(w)
    \/ \E w \in Workers : GBDWorker_write_block(w)
    \/ \E w \in Workers : new_block_acquire(w)
    \/ \E w \in Workers : new_block(w)
    \/ \E w \in Workers : do_request_backoff(w)
    \/ \E w \in Workers : run_callback(w)
    \/ \E w \in Workers : run_task_done(w)

\* the next step of worker thread w
WorkerStep(w) ==
    \/ run_get(w)
    \/ block_id_acquire(w)
    \/ block_id(w)
    \/ GBDWorker_read_block(w)
    \/ GBDWorker_write_block(w)
    \/ new_block_acquire(w)
    \/ new_block(w)
    \/ do_request_backoff(w)
    \/ run_callback(w)
    \/ run_task_done(w)

\* every worker thread that can take a step is scheduled, a remote call, a
\* sleep and a callback end, and a caller woken from sem.acquire() or
\* que.join() goes on
Fairness ==
    /\ \A w \in Workers : WF_vars(WorkerStep(w))
    /\ \A c \in Calls : WF_vars(sync_io_return(c))
    /\ \A c \in Calls : WF_vars(sync_return(c))

SpecLive == InitLive /\ [][NextLive]_vars /\ Fairness

\* C20: under fair scheduling, every enqueued item has its callback called,
\* every synchronous read or write returns or raises, and every sync()
\* returns once the items stop coming.
C20_Progress ==
    \A c \in Calls :
        /\ Enqueued(c) ~> Completed(c)
        /\ (calls[c].st = "waiting") ~> (calls[c].st \in {"returned", "raised"})
        /\ (calls[c].st = "joining") ~> (calls[c].st = "flushed")


\* a synchronous call whose item was rejected for the rate limit on all its
\* attempts has returned, and a later sync() has returned too
C20_Witness ==
    \E c, d \in Calls :
        /\ c < d
        /\ calls[c].sink = "sync" /\ calls[c].st = "returned"
        /\ calls[c].out = <<NoErr, NoneRet>>
        /\ calls[d].st = "flushed"
====
